---- MODULE Spec2Model ----
(***************************************************************************)
(* Model of docs/user-guide/examples/workflow_demo.py: the procedure       *)
(* demo_browser_workflow.  The procedure has no inputs; the only thing     *)
(* that varies between two executions is how long each time.sleep(0.5)     *)
(* really suspends the process.  The model therefore runs two independent  *)
(* executions of the procedure (each with its own locals, its own standard *)
(* output and its own wall clock) side by side.                            *)
(*                                                                         *)
(* Units: time is counted in tenths of a second, so extraction_time 2.5    *)
(* is 25 and time.sleep(0.5) is 5.                                         *)
(***************************************************************************)
EXTENDS Integers, Sequences, FiniteSets

\* ------------------------------------------------------------------ bounds
\* time.sleep(s) suspends for at least s; the overshoot is at most MaxJitter
\* tenths of a second in the model.
MaxJitter == 1

\* The independent executions of the procedure that are observed.
Runs == {"a", "b"}

\* ------------------------------------------------------- program constants
SleepTenths == 5

RuleWidth == 40

VARIABLES pc, idx, opidx, results, out, clock, naps

vars == <<pc, idx, opidx, results, out, clock, naps>>

\* --------------------------------------------------------------- literals
\* workflow_steps: the third descriptor has no "url" key.
workflow_steps_swapped ==
  << [name |-> "Browse News Article", url |-> "https://httpbin.org/html",
      action |-> "Extract article content and entities"],
     [name |-> "Browse Company Website", url |-> "https://example.com",
      action |-> "Extract company information and metadata"],
     [name |-> "KG Integration",
      action |-> "Store extracted information in knowledge graph"] >>

workflow_steps_noaction ==
  << [name |-> "Browse Company Website", url |-> "https://example.com",
      action |-> "Extract company information and metadata"],
     [name |-> "Browse News Article", url |-> "https://httpbin.org/html",
      action |-> "Extract article content and entities"],
     [name |-> "KG Integration"] >>

workflow_steps ==
  << [name |-> "Browse Company Website", url |-> "https://example.com",
      action |-> "Extract company information and metadata"],
     [name |-> "Browse News Article", url |-> "https://httpbin.org/html",
      action |-> "Extract article content and entities"],
     [name |-> "KG Integration",
      action |-> "Store extracted information in knowledge graph"] >>

kg_operations_swapped ==
  << "INSERT entity relationships",
     "INSERT company data triples",
     "Run inference on new data",
     "Update entity embeddings" >>

kg_operations ==
  << "INSERT company data triples",
     "INSERT entity relationships",
     "Run inference on new data",
     "Update entity embeddings" >>

\* mock_result for a step with url u.
mock_result_failed(u) ==
  [url |-> u, success |-> FALSE, extraction_time |-> 25,
   content_length |-> 15432, entities_found |-> 8, kg_triples_added |-> 12]

mock_result(u) ==
  [url |-> u, success |-> TRUE, extraction_time |-> 25,
   content_length |-> 15432, entities_found |-> 8, kg_triples_added |-> 12]

\* ------------------------------------------------------- dict operations
\* key in d
Has(d, k) == k \in DOMAIN d

\* d.get(k, dflt)
Get(d, k, dflt) == IF k \in DOMAIN d THEN d[k] ELSE dflt

\* ---------------------------------------------------------------- output
\* One printed line: a label and the value formatted into it.
Line(label, arg) == <<label, arg>>

\* A printed line with no formatted value.
Text(label) == <<label>>

\* len([r for r in results if 'url' in r])
HasUrl(r) == Has(r, "url")

UrlsProcessed(rs) == Len(SelectSeq(rs, HasUrl))

\* sum(r.get(field, 0) for r in results)
RECURSIVE SumFieldCount(_, _)
SumFieldCount(rs, field) ==
  IF rs = <<>> THEN 0
  ELSE (IF Has(Head(rs), field) THEN 1 ELSE 0) + SumFieldCount(Tail(rs), field)

RECURSIVE SumField(_, _)
SumField(rs, field) ==
  IF rs = <<>> THEN 0
  ELSE Get(Head(rs), field, 0) + SumField(Tail(rs), field)

\* ------------------------------------------------------------ json.dumps
\* JSON values: a string, a list of values, or a dict kept as the sequence
\* of its (key, value) pairs in insertion order.
Str(s) == [t |-> "str", v |-> s]

Arr(elems) == [t |-> "arr", v |-> elems]

Obj(pairs) == [t |-> "obj", v |-> pairs]

\* Tokens of the emitted text: punctuation, a quoted string, or a newline
\* followed by n spaces of indentation.
P(s) == [k |-> "p", s |-> s, n |-> 0]

S(s) == [k |-> "s", s |-> s, n |-> 0]

NL(n) == [k |-> "nl", s |-> "", n |-> n]

Indent == 2

\* json.dumps(value, indent=2) at nesting depth d.
RECURSIVE Dump(_, _)
RECURSIVE DumpItems(_, _, _)
DumpItems(kind, items, d) ==
  IF items = <<>> THEN <<>>
  ELSE LET first == Head(items)
           body  == IF kind = "obj"
                    THEN <<S(first[1]), P(": ")>> \o Dump(first[2], d)
                    ELSE Dump(first, d)
           sep   == IF Len(items) > 1 THEN <<P(","), NL(Indent * d)>> ELSE <<>>
       IN  body \o sep \o DumpItems(kind, Tail(items), d)

Dump(val, d) ==
  IF val.t = "str" THEN <<S(val.v)>>
  ELSE LET open  == IF val.t = "obj" THEN P("{") ELSE P("[")
           close == IF val.t = "obj" THEN P("}") ELSE P("]")
       IN  IF val.v = <<>> THEN <<open, close>>
           ELSE <<open, NL(Indent * (d + 1))>>
                \o DumpItems(val.t, val.v, d + 1)
                \o <<NL(Indent * d), close>>

dumps(val) == Dump(val, 0)

\* A reader of the emitted text (json.loads): skips layout, rebuilds the
\* value.  Returns the value and the index after it.
RECURSIVE Skip(_, _)
Skip(toks, i) ==
  IF i <= Len(toks) /\ toks[i].k = "nl" THEN Skip(toks, i + 1) ELSE i

RECURSIVE ParseValue(_, _)
RECURSIVE ParseItems(_, _, _, _)
ParseItems(kind, toks, i, acc) ==
  LET j == Skip(toks, i)
      close == IF kind = "obj" THEN P("}") ELSE P("]")
  IN  IF toks[j] = close
      THEN [v |-> [t |-> kind, v |-> acc], i |-> j + 1]
      ELSE IF toks[j] = P(",")
      THEN ParseItems(kind, toks, j + 1, acc)
      ELSE IF kind = "obj"
      THEN LET r == ParseValue(toks, j + 2)
           IN  ParseItems(kind, toks, r.i, Append(acc, <<toks[j].s, r.v>>))
      ELSE LET r == ParseValue(toks, j)
           IN  ParseItems(kind, toks, r.i, Append(acc, r.v))

ParseValue(toks, i) ==
  LET j == Skip(toks, i)
  IN  IF toks[j].k = "s" THEN [v |-> Str(toks[j].s), i |-> j + 1]
      ELSE IF toks[j] = P("{") THEN ParseItems("obj", toks, j + 1, <<>>)
      ELSE ParseItems("arr", toks, j + 1, <<>>)

loads(toks) == ParseValue(toks, 1).v

\* workflow_def
workflow_def_reordered ==
  Obj(<< <<"name", Str("Content Extraction Pipeline")>>,
         <<"steps", Arr(<<
             Obj(<< <<"type", Str("browse")>>,
                    <<"url", Str("https://httpbin.org/html")>>,
                    <<"extract", Str("content")>> >>),
             Obj(<< <<"type", Str("browse")>>,
                    <<"url", Str("https://example.com")>>,
                    <<"extract", Str("metadata")>> >>),
             Obj(<< <<"type", Str("kg_update")>>,
                    <<"source", Str("extracted_data")>> >>),
             Obj(<< <<"type", Str("inference")>>,
                    <<"model", Str("kg_embeddings")>> >>) >>)>>,
         <<"output", Obj(<< <<"kg_triples", Str("generated")>>,
                            <<"entities", Str("extracted")>>,
                            <<"embeddings", Str("updated")>> >>)>> >>)

workflow_def ==
  Obj(<< <<"name", Str("Content Extraction Pipeline")>>,
         <<"steps", Arr(<<
             Obj(<< <<"type", Str("browse")>>,
                    <<"url", Str("https://example.com")>>,
                    <<"extract", Str("metadata")>> >>),
             Obj(<< <<"type", Str("browse")>>,
                    <<"url", Str("https://httpbin.org/html")>>,
                    <<"extract", Str("content")>> >>),
             Obj(<< <<"type", Str("kg_update")>>,
                    <<"source", Str("extracted_data")>> >>),
             Obj(<< <<"type", Str("inference")>>,
                    <<"model", Str("kg_embeddings")>> >>) >>)>>,
         <<"output", Obj(<< <<"kg_triples", Str("generated")>>,
                            <<"entities", Str("extracted")>>,
                            <<"embeddings", Str("updated")>> >>)>> >>)

\* ----------------------------------------------------------------- state
\* pc[r]      position of execution r in the procedure
\* idx[r]     number of entries the outer for loop has taken from
\*            workflow_steps (the current step is workflow_steps[idx[r]])
\* opidx[r]   number of entries the inner for loop has taken from
\*            kg_operations
\* results[r] the local list results
\* out[r]     the lines printed so far
\* clock[r]   time spent suspended in time.sleep, in tenths of a second
\* naps[r]    number of time.sleep calls that have returned
Init ==
  /\ pc = [r \in Runs |-> "start"]
  /\ idx = [r \in Runs |-> 0]
  /\ opidx = [r \in Runs |-> 0]
  /\ results = [r \in Runs |-> <<>>]
  /\ out = [r \in Runs |-> <<>>]
  /\ clock = [r \in Runs |-> 0]
  /\ naps = [r \in Runs |-> 0]

\* The step the outer loop is processing.
CurStep(r) == workflow_steps[idx[r]]

\* Lines 8-29: the banner, the step list, results = [].
Start(r) ==
  /\ pc[r] = "start"
  /\ out' = [out EXCEPT ![r] =
               @ \o << Line("title", "Browser Automation Workflow Demo"),
                       Line("rule", RuleWidth) >>]
  /\ results' = [results EXCEPT ![r] = <<>>]
  /\ idx' = [idx EXCEPT ![r] = 0]
  /\ pc' = [pc EXCEPT ![r] = "loop"]
  /\ UNCHANGED <<opidx, clock, naps>>

\* Lines 31-32: the for loop takes the next step and prints its name, or is
\* exhausted and falls through to the summary.
ForStep_early(r) ==
  /\ pc[r] = "loop"
  /\ IF idx[r] < Len(workflow_steps) - 1
     THEN LET step == workflow_steps[idx[r] + 1]
          IN  /\ idx' = [idx EXCEPT ![r] = @ + 1]
              /\ IF Has(step, "name")
                 THEN /\ out' = [out EXCEPT ![r] =
                                   Append(@, Line("Step", step.name))]
                      /\ pc' = [pc EXCEPT ![r] = "body"]
                 ELSE /\ out' = out
                      /\ pc' = [pc EXCEPT ![r] = "raised"]
     ELSE /\ pc' = [pc EXCEPT ![r] = "summary"]
          /\ UNCHANGED <<idx, out>>
  /\ UNCHANGED <<opidx, results, clock, naps>>

ForStep(r) ==
  /\ pc[r] = "loop"
  /\ IF idx[r] < Len(workflow_steps)
     THEN LET step == workflow_steps[idx[r] + 1]
          IN  /\ idx' = [idx EXCEPT ![r] = @ + 1]
              /\ IF Has(step, "name")
                 THEN /\ out' = [out EXCEPT ![r] =
                                   Append(@, Line("Step", step.name))]
                      /\ pc' = [pc EXCEPT ![r] = "body"]
                 ELSE /\ out' = out
                      /\ pc' = [pc EXCEPT ![r] = "raised"]
     ELSE /\ pc' = [pc EXCEPT ![r] = "summary"]
          /\ UNCHANGED <<idx, out>>
  /\ UNCHANGED <<opidx, results, clock, naps>>

\* Lines 34 and 56: if 'url' in step ... elif step['name'] == "KG
\* Integration" ... (no else: any other step does nothing).
Dispatch(r) ==
  /\ pc[r] = "body"
  /\ pc' = [pc EXCEPT ![r] =
              IF Has(CurStep(r), "url") THEN "browse"
              ELSE IF CurStep(r).name = "KG Integration" THEN "kg"
              ELSE "loop"]
  /\ UNCHANGED <<idx, opidx, results, out, clock, naps>>

\* Lines 35-54: the browse branch.  step['action'] raises KeyError when the
\* descriptor has no action, after the URL line has been printed.
Browse_noappend(r) ==
  /\ pc[r] = "browse"
  /\ LET step == CurStep(r)
         m    == mock_result(step.url)
     IN  /\ out' = [out EXCEPT ![r] =
                      @ \o << Line("URL", step.url),
                              Line("Action", step.action),
                              Line("Success", m.success),
                              Line("Time", m.extraction_time),
                              Line("Content", m.content_length),
                              Line("Entities", m.entities_found),
                              Line("KG Triples", m.kg_triples_added) >>]
         /\ results' = results
         /\ pc' = [pc EXCEPT ![r] = "loop"]
  /\ UNCHANGED <<idx, opidx, clock, naps>>

Browse(r) ==
  /\ pc[r] = "browse"
  /\ LET step == CurStep(r)
         m    == mock_result(step.url)
     IN  IF Has(step, "action")
         THEN /\ out' = [out EXCEPT ![r] =
                           @ \o << Line("URL", step.url),
                                   Line("Action", step.action),
                                   Line("Success", m.success),
                                   Line("Time", m.extraction_time),
                                   Line("Content", m.content_length),
                                   Line("Entities", m.entities_found),
                                   Line("KG Triples", m.kg_triples_added) >>]
              /\ results' = [results EXCEPT ![r] = Append(@, m)]
              /\ pc' = [pc EXCEPT ![r] = "loop"]
         ELSE /\ out' = [out EXCEPT ![r] = Append(@, Line("URL", step.url))]
              /\ results' = results
              /\ pc' = [pc EXCEPT ![r] = "raised"]
  /\ UNCHANGED <<idx, opidx, clock, naps>>

\* Lines 57-65: the KG Integration branch prints its action and sets up the
\* inner loop.
KGBegin(r) ==
  /\ pc[r] = "kg"
  /\ IF Has(CurStep(r), "action")
     THEN /\ out' = [out EXCEPT ![r] =
                       Append(@, Line("Action", CurStep(r).action))]
          /\ pc' = [pc EXCEPT ![r] = "kgloop"]
     ELSE /\ out' = out
          /\ pc' = [pc EXCEPT ![r] = "raised"]
  /\ opidx' = [opidx EXCEPT ![r] = 0]
  /\ UNCHANGED <<idx, results, clock, naps>>

\* Lines 67-68 and 71: the inner loop takes the next operation and prints
\* it, or is exhausted and the completion line is printed.
KGOp_timestamped(r) ==
  /\ pc[r] = "kgloop"
  /\ IF opidx[r] < Len(kg_operations)
     THEN /\ out' = [out EXCEPT ![r] =
                       Append(@, Line("KGOp", <<kg_operations[opidx[r] + 1],
                                                clock[r]>>))]
          /\ opidx' = [opidx EXCEPT ![r] = @ + 1]
          /\ pc' = [pc EXCEPT ![r] = "sleep"]
     ELSE /\ out' = [out EXCEPT ![r] =
                       Append(@, Text("KG integration completed"))]
          /\ opidx' = opidx
          /\ pc' = [pc EXCEPT ![r] = "loop"]
  /\ UNCHANGED <<idx, results, clock, naps>>

KGOp(r) ==
  /\ pc[r] = "kgloop"
  /\ IF opidx[r] < Len(kg_operations)
     THEN /\ out' = [out EXCEPT ![r] =
                       Append(@, Line("KGOp", kg_operations[opidx[r] + 1]))]
          /\ opidx' = [opidx EXCEPT ![r] = @ + 1]
          /\ pc' = [pc EXCEPT ![r] = "sleep"]
     ELSE /\ out' = [out EXCEPT ![r] =
                       Append(@, Text("KG integration completed"))]
          /\ opidx' = opidx
          /\ pc' = [pc EXCEPT ![r] = "loop"]
  /\ UNCHANGED <<idx, results, clock, naps>>

\* Line 69: time.sleep(0.5) returns after at least 0.5 s.
KGSleep(r) ==
  /\ pc[r] = "sleep"
  /\ \E j \in 0..MaxJitter :
       clock' = [clock EXCEPT ![r] = @ + SleepTenths + j]
  /\ naps' = [naps EXCEPT ![r] = @ + 1]
  /\ pc' = [pc EXCEPT ![r] = "kgloop"]
  /\ UNCHANGED <<idx, opidx, results, out>>

\* Lines 73-77: the summary.
Summary(r) ==
  /\ pc[r] = "summary"
  /\ out' = [out EXCEPT ![r] =
               @ \o << Text("Workflow Summary:"),
                       Line("Total steps", Len(workflow_steps)),
                       Line("URLs processed", UrlsProcessed(results[r])),
                       Line("Total entities extracted",
                            SumField(results[r], "entities_found")),
                       Line("Total KG triples added",
                            SumField(results[r], "kg_triples_added")) >>]
  /\ pc' = [pc EXCEPT ![r] = "benefits"]
  /\ UNCHANGED <<idx, opidx, results, clock, naps>>

\* Lines 80-85: the printed list of benefits.
Benefits(r) ==
  /\ pc[r] = "benefits"
  /\ out' = [out EXCEPT ![r] =
               @ \o << Text("Workflow Benefits:"),
                       Line("benefit", "Automated end-to-end processing"),
                       Line("benefit", "Consistent data extraction"),
                       Line("benefit", "Integrated KG updates"),
                       Line("benefit", "Error handling and retries"),
                       Line("benefit", "Performance monitoring") >>]
  /\ pc' = [pc EXCEPT ![r] = "define"]
  /\ UNCHANGED <<idx, opidx, results, clock, naps>>

\* Lines 88-104: the workflow definition is built and printed as JSON.
Definition(r) ==
  /\ pc[r] = "define"
  /\ out' = [out EXCEPT ![r] =
               @ \o << Text("Workflow Definition (JSON):"),
                       Line("json", dumps(workflow_def)) >>]
  /\ pc' = [pc EXCEPT ![r] = "done"]
  /\ UNCHANGED <<idx, opidx, results, clock, naps>>

\* Lines 5-104: one step of execution r.
RunNext(r) ==
  \/ Start(r)
  \/ ForStep(r)
  \/ Dispatch(r)
  \/ Browse(r)
  \/ KGBegin(r)
  \/ KGOp(r)
  \/ KGSleep(r)
  \/ Summary(r)
  \/ Benefits(r)
  \/ Definition(r)

Next == \E r \in Runs : RunNext(r)

Spec == Init /\ [][Next]_vars

\* Each execution is a process of its own that the operating system keeps
\* scheduling, and every time.sleep returns.
LiveSpec == Spec /\ \A r \in Runs : WF_vars(RunNext(r))

TypeOK ==
  /\ pc \in [Runs -> {"start", "loop", "body", "browse", "kg", "kgloop",
                      "sleep", "summary", "benefits", "define", "done",
                      "raised"}]
  /\ idx \in [Runs -> 0..Len(workflow_steps)]
  /\ opidx \in [Runs -> 0..Len(kg_operations)]
  /\ naps \in [Runs -> 0..Len(kg_operations)]
  /\ clock \in [Runs -> 0..(Len(kg_operations) * (SleepTenths + MaxJitter))]

\* ------------------------------------------------------------ observers
\* The values formatted into the printed lines that carry the given label,
\* in print order.
IsLabel(e, label) == e[1] = label

Args(o, label) ==
  LET sel == SelectSeq(o, LAMBDA e : IsLabel(e, label))
  IN  [i \in 1..Len(sel) |-> sel[i][2]]

Printed(o, label) == \E i \in 1..Len(o) : o[i][1] = label

IsPrefix(s, t) == Len(s) <= Len(t) /\ SubSeq(t, 1, Len(s)) = s

StepNames(r) == Args(out[r], "Step")

ResultUrls(r) == [i \in 1..Len(results[r]) |-> results[r][i].url]

AfterLoop == {"summary", "benefits", "define", "done"}

InKG == {"kg", "kgloop", "sleep"}

\* Keys of a parsed JSON object, in document order, and the value of a key.
KeysOf(obj) == [i \in 1..Len(obj.v) |-> obj.v[i][1]]

ValueOf(obj, key) ==
  LET i == CHOOSE n \in 1..Len(obj.v) : obj.v[n][1] = key
  IN  obj.v[i][2]

\* ------------------------------------------------------------------ C1
\* C1: one run performs exactly 3 step iterations, one per entry of
\* workflow_steps and in list order: the step names printed so far are
\* always an initial part of Browse Company Website, Browse News Article,
\* KG Integration, there is one per entry taken by the loop, and once the
\* loop is over all three have been printed.
C1_StepOrder ==
  \A r \in Runs :
    LET names == StepNames(r)
    IN  /\ Len(names) <= 3
        /\ Len(names) = idx[r]
        /\ names = SubSeq(<<"Browse Company Website", "Browse News Article",
                            "KG Integration">>, 1, Len(names))
        /\ pc[r] \in AfterLoop => Len(names) = 3

C1_Witness ==
  \E r \in Runs : pc[r] = "summary" /\ Len(StepNames(r)) = 3

\* ------------------------------------------------------------------ C2
\* C2: when the step loop has finished, the summary reports Total steps 3,
\* URLs processed 2, Total entities extracted 16 and Total KG triples added
\* 24, the sums over exactly two records of 8 entities and 12 triples each.
C2_SummaryTotals ==
  \A r \in Runs :
    pc[r] \in {"benefits", "define", "done"} =>
      /\ Args(out[r], "Total steps") = <<3>>
      /\ Args(out[r], "URLs processed") = <<2>>
      /\ Args(out[r], "Total entities extracted") = <<16>>
      /\ Args(out[r], "Total KG triples added") = <<24>>
      /\ Len(results[r]) = 2
      /\ \A i \in 1..Len(results[r]) :
           /\ results[r][i].entities_found = 8
           /\ results[r][i].kg_triples_added = 12

C2_Witness ==
  \E r \in Runs :
    pc[r] = "benefits" /\ Args(out[r], "Total KG triples added") = <<24>>

\* ------------------------------------------------------------------ C3
\* C3: the workflow definition printed last, once read back, is an object
\* with exactly the keys name, steps, output; steps has exactly 4 entries in
\* the order browse(https://example.com), browse(https://httpbin.org/html),
\* kg_update, inference; output has exactly the keys kg_triples, entities,
\* embeddings; and this holds whatever the step loop computed.
C3_DefinitionLiteral ==
  \A r \in Runs :
    pc[r] = "done" =>
      LET ev == out[r][Len(out[r])]
      IN  /\ ev[1] = "json"
          /\ LET d     == loads(ev[2])
                 steps == ValueOf(d, "steps")
                 outp  == ValueOf(d, "output")
             IN  /\ d.t = "obj"
                 /\ KeysOf(d) = <<"name", "steps", "output">>
                 /\ ValueOf(d, "name") = Str("Content Extraction Pipeline")
                 /\ steps.t = "arr"
                 /\ Len(steps.v) = 4
                 /\ KeysOf(steps.v[1]) = <<"type", "url", "extract">>
                 /\ KeysOf(steps.v[2]) = <<"type", "url", "extract">>
                 /\ KeysOf(steps.v[3]) = <<"type", "source">>
                 /\ KeysOf(steps.v[4]) = <<"type", "model">>
                 /\ [i \in 1..4 |-> ValueOf(steps.v[i], "type").v]
                      = <<"browse", "browse", "kg_update", "inference">>
                 /\ ValueOf(steps.v[1], "url") = Str("https://example.com")
                 /\ ValueOf(steps.v[1], "extract") = Str("metadata")
                 /\ ValueOf(steps.v[2], "url") = Str("https://httpbin.org/html")
                 /\ ValueOf(steps.v[2], "extract") = Str("content")
                 /\ ValueOf(steps.v[3], "source") = Str("extracted_data")
                 /\ ValueOf(steps.v[4], "model") = Str("kg_embeddings")
                 /\ outp.t = "obj"
                 /\ KeysOf(outp) = <<"kg_triples", "entities", "embeddings">>
                 /\ [i \in 1..3 |-> outp.v[i][2].v]
                      = <<"generated", "extracted", "updated">>

C3_Witness ==
  \E r \in Runs :
    /\ pc[r] = "done"
    /\ Printed(out[r], "json")
    /\ clock[r] > Len(kg_operations) * SleepTenths

\* ------------------------------------------------------------------ C4
\* C4: every run terminates: the outer loop takes all 3 steps, the inner
\* loop takes all 4 KG operations, the workflow definition is printed, and
\* no exception is raised on the way.
C4_Terminates ==
  /\ \A r \in Runs :
       <>(/\ pc[r] = "done"
          /\ idx[r] = 3
          /\ opidx[r] = 4
          /\ Printed(out[r], "json"))
  /\ [](\A r \in Runs : pc[r] # "raised")

C4_Witness ==
  \A r \in Runs : pc[r] = "done" /\ idx[r] = 3 /\ opidx[r] = 4

\* ------------------------------------------------------------------ C5
\* C5: no retry ever occurs: every step name is printed at most once (and
\* exactly once when the loop is over), every record of results and every
\* printed Success line is True, nothing is raised, the loop position never
\* moves back, and still 'Error handling and retries' is printed as a
\* benefit.
C5_NoRetry ==
  /\ [](\A r \in Runs :
          /\ \A i, j \in 1..Len(StepNames(r)) :
               StepNames(r)[i] = StepNames(r)[j] => i = j
          /\ pc[r] \in AfterLoop =>
               \A k \in 1..Len(workflow_steps) :
                 \E i \in 1..Len(StepNames(r)) :
                   StepNames(r)[i] = workflow_steps[k].name
          /\ \A i \in 1..Len(results[r]) : results[r][i].success = TRUE
          /\ \A i \in 1..Len(Args(out[r], "Success")) :
               Args(out[r], "Success")[i] = TRUE
          /\ pc[r] # "raised"
          /\ pc[r] \in {"define", "done"} =>
               \E i \in 1..Len(Args(out[r], "benefit")) :
                 Args(out[r], "benefit")[i] = "Error handling and retries")
  /\ [][\A r \in Runs : idx'[r] >= idx[r] /\ Len(out'[r]) >= Len(out[r])]_vars

C5_Witness ==
  \E r \in Runs :
    /\ pc[r] = "define"
    /\ Len(results[r]) = 2
    /\ Len(Args(out[r], "Success")) = 2

\* ------------------------------------------------------------------ C6
\* C6: the delays have no bearing on output or results: for any two runs,
\* whatever their delays, what one has printed (appended to results) so far
\* is an initial part of what the other has, or the other way round, and two
\* finished runs have printed the same lines and hold the same results.
C6_DelayIndependent ==
  \A r1, r2 \in Runs :
    /\ IsPrefix(out[r1], out[r2]) \/ IsPrefix(out[r2], out[r1])
    /\ IsPrefix(results[r1], results[r2]) \/ IsPrefix(results[r2], results[r1])
    /\ (pc[r1] = "done" /\ pc[r2] = "done") =>
         out[r1] = out[r2] /\ results[r1] = results[r2]

C6_Witness ==
  \E r1, r2 \in Runs :
    /\ pc[r1] = "done"
    /\ pc[r2] = "done"
    /\ naps[r1] = 4
    /\ naps[r2] = 4
    /\ clock[r1] # clock[r2]

\* ------------------------------------------------------------------ C7
\* C7: a record is appended exactly for the steps that have a url, with
\* that step's url: after the first k steps results holds the urls of the
\* url-bearing steps among them, in order, and the KG Integration step
\* leaves results unchanged.
Processed(r) ==
  IF pc[r] \in {"body", "browse"} \cup InKG THEN idx[r] - 1 ELSE idx[r]

C7_ResultsFollowUrlSteps ==
  /\ [](\A r \in Runs :
          pc[r] # "start" =>
            /\ Processed(r) = 0 => ResultUrls(r) = <<>>
            /\ Processed(r) = 1 => ResultUrls(r) = <<"https://example.com">>
            /\ Processed(r) >= 2 =>
                 ResultUrls(r) = <<"https://example.com",
                                   "https://httpbin.org/html">>)
  /\ [][\A r \in Runs : pc[r] \in InKG => results'[r] = results[r]]_vars

C7_Witness ==
  \E r \in Runs :
    /\ pc[r] = "loop"
    /\ idx[r] = 3
    /\ Printed(out[r], "KG integration completed")
    /\ Len(results[r]) = 2

\* ------------------------------------------------------------------ C8
\* C8: in the KG Integration step the 4 operations are printed in the
\* fixed order, each followed by one delay, 'KG integration completed' is
\* printed only after all 4, and all of it only after both browse steps
\* have appended their records.
C8_KGOrder ==
  \A r \in Runs :
    LET ops == Args(out[r], "KGOp")
    IN  /\ ops = SubSeq(<<"INSERT company data triples",
                          "INSERT entity relationships",
                          "Run inference on new data",
                          "Update entity embeddings">>, 1, Len(ops))
        /\ Len(ops) = opidx[r]
        /\ naps[r] = IF pc[r] = "sleep" THEN Len(ops) - 1 ELSE Len(ops)
        /\ clock[r] >= naps[r] * SleepTenths
        /\ Printed(out[r], "KG integration completed") =>
             Len(ops) = 4 /\ naps[r] = 4
        /\ (pc[r] \in InKG \/ Len(ops) > 0) =>
             ResultUrls(r) = <<"https://example.com",
                               "https://httpbin.org/html">>

C8_Witness ==
  \E r \in Runs :
    /\ Printed(out[r], "KG integration completed")
    /\ Len(Args(out[r], "KGOp")) = 4
    /\ naps[r] = 4
    /\ pc[r] = "loop"

\* ------------------------------------------------------------------ C9
\* C9: at every point the totals over results are 8 entities and 12 triples
\* per record, results has between 0 and 2 records and never shrinks, and
\* the summary is printed only after all 3 steps have been processed, so it
\* reports the totals of both records.
C9_Totals ==
  /\ [](\A r \in Runs :
          /\ SumField(results[r], "entities_found") = 8 * Len(results[r])
          /\ SumField(results[r], "kg_triples_added") = 12 * Len(results[r])
          /\ Len(results[r]) \in 0..2
          /\ Printed(out[r], "Total steps") =>
               /\ idx[r] = 3
               /\ Len(StepNames(r)) = 3
               /\ Printed(out[r], "KG integration completed")
               /\ Len(results[r]) = 2)
  /\ [][\A r \in Runs : Len(results'[r]) >= Len(results[r])]_vars

C9_Witness ==
  \E r \in Runs :
    /\ Printed(out[r], "Total steps")
    /\ SumField(results[r], "entities_found") = 16
    /\ SumField(results[r], "kg_triples_added") = 24

====
